---- MODULE Spec2Model ----
(***************************************************************************)
(* Model of postgres/executor/manager.go: the Manager that stores a        *)
(* transaction or a batch in a context.Context and resolves the Executor   *)
(* that the next database operation is sent to.                            *)
(*                                                                         *)
(* Go values are modelled with their dynamic type: an interface value is   *)
(* a record [typ, ref]; the nil interface has typ "nil".  A pointer is an  *)
(* address, 0 being the nil pointer.  A context is an address into the     *)
(* store of valueCtx structs, 0 being context.Background().                *)
(***************************************************************************)
EXTENDS Integers, Sequences, FiniteSets, TLC

VARIABLES pool, ctxs, scope, batches, poolExecs, ret, cur, pc, loc

vars == <<pool, ctxs, scope, batches, poolExecs, ret, cur, pc, loc>>

-----------------------------------------------------------------------------
(* Bounds of the model *)

MaxCtx == 2
MaxBatches == 2
MaxPoolExecs == 2
\* the specification with Queue
MaxCtxB == 1
MaxQueued == 1
\* the specification with concurrent callers
MaxCtxC == 2
MaxBatchesC == 1
MaxPoolExecsC == 1

\* the values the callers pass: the connection pool (one per manager, and
\* opaque to it), open transactions, SQL texts; and the goroutines
Pools == {"pool"}
Txs == {"tx1", "tx2"}
SQLs == {"INSERT"}
Procs == {"g1", "g2"}

-----------------------------------------------------------------------------
(* Go values *)

NilIface == [typ |-> "nil", ref |-> 0]

NoError == "nil"

TxIface(t) == [typ |-> "pgx.Tx", ref |-> t]

TxArgs == {NilIface} \cup {TxIface(t) : t \in Txs}

\* a *BatchExecutor stored in an interface: the interface is not nil even
\* when the pointer is
BatchIface(b) == [typ |-> "*BatchExecutor", ref |-> b]

PoolIface(a) == [typ |-> "*PoolExecutor", ref |-> a]

Background == 0

\* a context.Context returned to the caller
CtxRef(c) == [typ |-> "context", ref |-> c]

Contexts == 0..Len(ctxs)

\* the abstract view of a context: the two slots of the data model
Absent == [typ |-> "absent", ref |-> 0]

EmptyScope == [tx |-> Absent, batch |-> Absent]

ScopeOf(c) == IF c = Background THEN EmptyScope ELSE scope[c]

-----------------------------------------------------------------------------
(* context.WithValue and Context.Value *)

WithValue(parent, key, val) == [parent |-> parent, key |-> key, val |-> val]

\* a lookup that lets a nil value fall through to the enclosing scope
RECURSIVE ValueSkipNil(_, _)
ValueSkipNil(c, key) ==
    IF c = Background THEN NilIface
    ELSE IF ctxs[c].key = key /\ ctxs[c].val # NilIface THEN ctxs[c].val
    ELSE ValueSkipNil(ctxs[c].parent, key)

\* a lookup in which the outermost injection wins
RECURSIVE ValueOutermost(_, _)
ValueOutermost(c, key) ==
    IF c = Background THEN NilIface
    ELSE LET up == ValueOutermost(ctxs[c].parent, key)
         IN  IF up # NilIface THEN up
             ELSE IF ctxs[c].key = key THEN ctxs[c].val
             ELSE NilIface

RECURSIVE Value(_, _)
Value(c, key) ==
    IF c = Background THEN NilIface
    ELSE IF ctxs[c].key = key THEN ctxs[c].val
    ELSE Value(ctxs[c].parent, key)

-----------------------------------------------------------------------------
(* The Manager's methods.  A method that allocates returns the heap after  *)
(* the call beside its result.                                             *)

NewManager(p) == p

\* an injection under the batch key
InjectTxWrongKey(ctx, tx) == Append(ctxs, WithValue(ctx, "batchKey", tx))

\* an injection that derives from the most recent context, not the argument
InjectTxAmbient(ctx, tx) == Append(ctxs, WithValue(Len(ctxs), "txKey", tx))

InjectTx(ctx, tx) == Append(ctxs, WithValue(ctx, "txKey", tx))

ExtractTx(ctx) ==
    LET v == Value(ctx, "txKey")
        ok == v.typ = "pgx.Tx"
    IN  [tx |-> IF ok THEN v ELSE NilIface, ok |-> ok]

\* a constructor that hands out one shared batch
NewBatchShared == IF Len(batches) >= 1 THEN batches ELSE Append(batches, <<>>)

NewBatch == Append(batches, <<>>)

\* an injection that derives from the most recent context, not the argument
InjectBatchAmbient(ctx, batch) ==
    Append(ctxs, WithValue(Len(ctxs), "batchKey", BatchIface(batch)))

InjectBatch(ctx, batch) ==
    Append(ctxs, WithValue(ctx, "batchKey", BatchIface(batch)))

ExtractBatch(ctx) ==
    LET v == Value(ctx, "batchKey")
        ok == v.typ = "*BatchExecutor"
    IN  [batch |-> IF ok THEN v.ref ELSE 0, ok |-> ok]

\* a pool executor built once and handed out again
NewPoolExecutorCached ==
    IF Len(poolExecs) >= 1
    THEN [exec |-> PoolIface(1), heap |-> poolExecs]
    ELSE [exec |-> PoolIface(1), heap |-> <<[Pool |-> pool]>>]

NewPoolExecutor ==
    [exec |-> PoolIface(Len(poolExecs) + 1),
     heap |-> Append(poolExecs, [Pool |-> pool])]

\* the transaction checked before the batch
GetExecutorTxFirst(ctx) ==
    IF ExtractTx(ctx).ok
    THEN [exec |-> ExtractTx(ctx).tx, heap |-> poolExecs]
    ELSE IF ExtractBatch(ctx).ok
    THEN [exec |-> BatchIface(ExtractBatch(ctx).batch), heap |-> poolExecs]
    ELSE NewPoolExecutor

GetExecutor(ctx) ==
    IF ExtractBatch(ctx).ok
    THEN [exec |-> BatchIface(ExtractBatch(ctx).batch), heap |-> poolExecs]
    ELSE IF ExtractTx(ctx).ok
    THEN [exec |-> ExtractTx(ctx).tx, heap |-> poolExecs]
    ELSE NewPoolExecutor

GetPoolExecutor == NewPoolExecutor

\* the condition of line 92 the other way round
GetTxExecutorSwapped(ctx) ==
    IF ExtractTx(ctx).ok
    THEN [exec |-> ExtractTx(ctx).tx, err |-> NoError]
    ELSE [exec |-> ExtractTx(ctx).tx, err |-> "no transaction found in context"]

GetTxExecutor(ctx) ==
    IF ~ExtractTx(ctx).ok
    THEN [exec |-> ExtractTx(ctx).tx, err |-> NoError]
    ELSE [exec |-> ExtractTx(ctx).tx, err |-> "no transaction found in context"]

GetBatchExecutor(ctx) ==
    IF ~ExtractBatch(ctx).ok
    THEN [exec |-> BatchIface(ExtractBatch(ctx).batch), err |-> NoError]
    ELSE [exec |-> BatchIface(ExtractBatch(ctx).batch),
          err |-> "no batch found in context"]

\* pgx.Batch.Queue, reached through the embedded *pgx.Batch
Queue(b, sql) == [batches EXCEPT ![b] = Append(@, sql)]

-----------------------------------------------------------------------------
(* Calls by a single caller on any context it holds *)

Ret(op, ctx, val, ok, err) ==
    [op |-> op, ctx |-> ctx, val |-> val, ok |-> ok, err |-> err]

Init ==
    /\ pool \in {NewManager(p) : p \in Pools}
    /\ ctxs = <<>>
    /\ scope = <<>>
    /\ batches = <<>>
    /\ poolExecs = <<>>
    /\ ret = Ret("NewManager", Background, NilIface, TRUE, NoError)
    /\ cur = [p \in Procs |-> Background]
    /\ pc = [p \in Procs |-> "idle"]
    /\ loc = [p \in Procs |-> NilIface]

CallInjectTx(c, tx) ==
    /\ ctxs' = InjectTx(c, tx)
    /\ scope' = Append(scope, [ScopeOf(c) EXCEPT !.tx = tx])
    /\ ret' = Ret("InjectTx", c, CtxRef(Len(ctxs')), TRUE, NoError)
    /\ UNCHANGED <<pool, batches, poolExecs, cur, pc, loc>>

CallInjectBatch(c, b) ==
    /\ ctxs' = InjectBatch(c, b)
    /\ scope' = Append(scope, [ScopeOf(c) EXCEPT !.batch = BatchIface(b)])
    /\ ret' = Ret("InjectBatch", c, CtxRef(Len(ctxs')), TRUE, NoError)
    /\ UNCHANGED <<pool, batches, poolExecs, cur, pc, loc>>

\* a caller derives a context with a key of its own
CallerWithValue(c) ==
    /\ ctxs' = Append(ctxs, WithValue(c, "callerKey", [typ |-> "string", ref |-> 0]))
    /\ scope' = Append(scope, ScopeOf(c))
    /\ ret' = Ret("WithValue", c, CtxRef(Len(ctxs')), TRUE, NoError)
    /\ UNCHANGED <<pool, batches, poolExecs, cur, pc, loc>>

CallNewBatch ==
    /\ Len(batches) < MaxBatches
    /\ batches' = NewBatch
    /\ ret' = Ret("NewBatch", Background, BatchIface(Len(batches')), TRUE, NoError)
    /\ UNCHANGED <<pool, ctxs, scope, poolExecs, cur, pc, loc>>

CallQueue(b, sql) ==
    /\ Len(batches[b]) < MaxQueued
    /\ batches' = Queue(b, sql)
    /\ ret' = Ret("Queue", Background, BatchIface(b), TRUE, NoError)
    /\ UNCHANGED <<pool, ctxs, scope, poolExecs, cur, pc, loc>>

CallExtractTx(c) ==
    /\ ret' = Ret("ExtractTx", c, ExtractTx(c).tx, ExtractTx(c).ok, NoError)
    /\ UNCHANGED <<pool, ctxs, scope, batches, poolExecs, cur, pc, loc>>

CallExtractBatch(c) ==
    /\ ret' = Ret("ExtractBatch", c, BatchIface(ExtractBatch(c).batch),
                  ExtractBatch(c).ok, NoError)
    /\ UNCHANGED <<pool, ctxs, scope, batches, poolExecs, cur, pc, loc>>

CallGetExecutor(c) ==
    /\ Len(GetExecutor(c).heap) <= MaxPoolExecs
    /\ poolExecs' = GetExecutor(c).heap
    /\ ret' = Ret("GetExecutor", c, GetExecutor(c).exec, TRUE, NoError)
    /\ UNCHANGED <<pool, ctxs, scope, batches, cur, pc, loc>>

CallGetPoolExecutor ==
    /\ Len(GetPoolExecutor.heap) <= MaxPoolExecs
    /\ poolExecs' = GetPoolExecutor.heap
    /\ ret' = Ret("GetPoolExecutor", Background, GetPoolExecutor.exec, TRUE, NoError)
    /\ UNCHANGED <<pool, ctxs, scope, batches, cur, pc, loc>>

CallGetTxExecutor(c) ==
    /\ ret' = Ret("GetTxExecutor", c, GetTxExecutor(c).exec, TRUE,
                  GetTxExecutor(c).err)
    /\ UNCHANGED <<pool, ctxs, scope, batches, poolExecs, cur, pc, loc>>

CallGetBatchExecutor(c) ==
    /\ ret' = Ret("GetBatchExecutor", c, GetBatchExecutor(c).exec, TRUE,
                  GetBatchExecutor(c).err)
    /\ UNCHANGED <<pool, ctxs, scope, batches, poolExecs, cur, pc, loc>>

Next ==
    \/ \E c \in Contexts, tx \in TxArgs :
          Len(ctxs) < MaxCtx /\ CallInjectTx(c, tx)
    \/ \E c \in Contexts, b \in 0..Len(batches) :
          Len(ctxs) < MaxCtx /\ CallInjectBatch(c, b)
    \/ \E c \in Contexts : Len(ctxs) < MaxCtx /\ CallerWithValue(c)
    \/ CallNewBatch
    \/ \E c \in Contexts : CallExtractTx(c)
    \/ \E c \in Contexts : CallExtractBatch(c)
    \/ \E c \in Contexts : CallGetExecutor(c)
    \/ CallGetPoolExecutor
    \/ \E c \in Contexts : CallGetTxExecutor(c)
    \/ \E c \in Contexts : CallGetBatchExecutor(c)

Spec == Init /\ [][Next]_vars

\* the same caller, who also queues statements on the batches it holds
NextBatch ==
    \/ \E c \in Contexts, tx \in TxArgs :
          Len(ctxs) < MaxCtxB /\ CallInjectTx(c, tx)
    \/ \E c \in Contexts, b \in 0..Len(batches) :
          Len(ctxs) < MaxCtxB /\ CallInjectBatch(c, b)
    \/ CallNewBatch
    \/ \E b \in 1..Len(batches), sql \in SQLs : CallQueue(b, sql)
    \/ \E c \in Contexts : CallExtractBatch(c)
    \/ \E c \in Contexts : CallGetExecutor(c)

SpecBatch == Init /\ [][NextBatch]_vars

-----------------------------------------------------------------------------
(* Concurrent callers.  Each goroutine p holds a context cur[p]; it derives *)
(* new contexts from it and resolves executors on it.  GetExecutor is not  *)
(* atomic: pc[p] is the line of manager.go the goroutine is at, and the    *)
(* other goroutines run between its lines.                                 *)

Idle(p) == pc[p] \in {"idle", "returned"}

\* go f(ctx): goroutine q is handed the context goroutine p holds
GoSpawn(p, q) ==
    /\ p # q
    /\ Idle(p) /\ Idle(q)
    /\ cur[q] # cur[p]
    /\ cur' = [cur EXCEPT ![q] = cur[p]]
    /\ pc' = [pc EXCEPT ![q] = "idle"]
    /\ loc' = [loc EXCEPT ![q] = NilIface]
    /\ UNCHANGED <<pool, ctxs, scope, batches, poolExecs, ret>>

GoInjectTx(p, tx) ==
    /\ Idle(p)
    /\ Len(ctxs) < MaxCtxC
    /\ ctxs' = InjectTx(cur[p], tx)
    /\ scope' = Append(scope, [ScopeOf(cur[p]) EXCEPT !.tx = tx])
    /\ cur' = [cur EXCEPT ![p] = Len(ctxs')]
    /\ pc' = [pc EXCEPT ![p] = "idle"]
    /\ loc' = [loc EXCEPT ![p] = NilIface]
    /\ UNCHANGED <<pool, batches, poolExecs, ret>>

GoInjectBatch(p, b) ==
    /\ Idle(p)
    /\ Len(ctxs) < MaxCtxC
    /\ ctxs' = InjectBatch(cur[p], b)
    /\ scope' = Append(scope, [ScopeOf(cur[p]) EXCEPT !.batch = BatchIface(b)])
    /\ cur' = [cur EXCEPT ![p] = Len(ctxs')]
    /\ pc' = [pc EXCEPT ![p] = "idle"]
    /\ loc' = [loc EXCEPT ![p] = NilIface]
    /\ UNCHANGED <<pool, batches, poolExecs, ret>>

\* line 69: GetExecutor(ctx) is entered with the goroutine's context
GoGetExecutor(p) ==
    /\ Idle(p)
    /\ pc' = [pc EXCEPT ![p] = "L70"]
    /\ loc' = [loc EXCEPT ![p] = NilIface]
    /\ UNCHANGED <<pool, ctxs, scope, batches, poolExecs, ret, cur>>

\* lines 70-72
GoL70(p) ==
    /\ pc[p] = "L70"
    /\ IF ExtractBatch(cur[p]).ok
       THEN /\ loc' = [loc EXCEPT ![p] = BatchIface(ExtractBatch(cur[p]).batch)]
            /\ pc' = [pc EXCEPT ![p] = "returned"]
       ELSE /\ pc' = [pc EXCEPT ![p] = "L74"]
            /\ UNCHANGED loc
    /\ UNCHANGED <<pool, ctxs, scope, batches, poolExecs, ret, cur>>

\* lines 74-76
GoL74(p) ==
    /\ pc[p] = "L74"
    /\ IF ExtractTx(cur[p]).ok
       THEN /\ loc' = [loc EXCEPT ![p] = ExtractTx(cur[p]).tx]
            /\ pc' = [pc EXCEPT ![p] = "returned"]
       ELSE /\ pc' = [pc EXCEPT ![p] = "L78"]
            /\ UNCHANGED loc
    /\ UNCHANGED <<pool, ctxs, scope, batches, poolExecs, ret, cur>>

\* line 78
GoL78(p) ==
    /\ pc[p] = "L78"
    /\ Len(poolExecs) < MaxPoolExecsC
    /\ poolExecs' = NewPoolExecutor.heap
    /\ loc' = [loc EXCEPT ![p] = NewPoolExecutor.exec]
    /\ pc' = [pc EXCEPT ![p] = "returned"]
    /\ UNCHANGED <<pool, ctxs, scope, batches, ret, cur>>

NextConc ==
    \/ \E p \in Procs, q \in Procs : GoSpawn(p, q)
    \/ \E p \in Procs, tx \in TxArgs : GoInjectTx(p, tx)
    \/ \E p \in Procs, b \in 0..Len(batches) : GoInjectBatch(p, b)
    \/ Len(batches) < MaxBatchesC /\ CallNewBatch
    \/ \E p \in Procs : GoGetExecutor(p)
    \/ \E p \in Procs : GoL70(p)
    \/ \E p \in Procs : GoL74(p)
    \/ \E p \in Procs : GoL78(p)

SpecConc == Init /\ [][NextConc]_vars

-----------------------------------------------------------------------------
(* Properties.  ScopeOf(c) is the record of what was injected on the way   *)
(* to context c, kept by the callers beside the store: tx and batch are    *)
(* Absent until an injection sets them.  A transaction is a non-nil pgx.Tx.*)

IsTx(v) == v.typ = "pgx.Tx"

IsPoolBacked(e) ==
    /\ e.typ = "*PoolExecutor"
    /\ e.ref \in 1..Len(poolExecs)
    /\ poolExecs[e.ref].Pool = pool

\* C1: in every context in which both a transaction and a batch have been
\* injected, in either order, GetExecutor returns the batch
C1_BatchPrecedesTx ==
    \A c \in Contexts :
        (ScopeOf(c).tx # Absent /\ ScopeOf(c).batch # Absent)
            => GetExecutor(c).exec = ScopeOf(c).batch

\* GetExecutor has returned the batch of a context whose innermost
\* injection is a transaction
C1_Witness ==
    /\ ret.op = "GetExecutor"
    /\ ret.ctx # Background
    /\ ctxs[ret.ctx].key = "txKey"
    /\ IsTx(ctxs[ret.ctx].val)
    /\ ScopeOf(ret.ctx).batch # Absent
    /\ ret.val = ScopeOf(ret.ctx).batch
    /\ ret.val.ref # 0

\* C2: in every context in which exactly one slot has been injected,
\* GetExecutor returns that very transaction, or that very batch
C2_SingleSlot ==
    \A c \in Contexts :
        /\ (IsTx(ScopeOf(c).tx) /\ ScopeOf(c).batch = Absent)
               => GetExecutor(c).exec = ScopeOf(c).tx
        /\ (ScopeOf(c).tx = Absent /\ ScopeOf(c).batch # Absent)
               => GetExecutor(c).exec = ScopeOf(c).batch

\* GetExecutor has returned the transaction of a context that holds only it
C2_Witness ==
    /\ ret.op = "GetExecutor"
    /\ IsTx(ScopeOf(ret.ctx).tx)
    /\ ScopeOf(ret.ctx).batch = Absent
    /\ ret.val = ScopeOf(ret.ctx).tx

\* C3: in every context in which nothing has been injected, GetExecutor
\* returns what GetPoolExecutor returns: a pool executor at an address no
\* earlier call returned, wrapping the pool the manager was built with; and a
\* pool executor that has been returned wraps that pool
C3_PoolFallback ==
    /\ \A c \in Contexts :
           ScopeOf(c) = EmptyScope =>
               /\ GetExecutor(c) = GetPoolExecutor
               /\ GetExecutor(c).exec.typ = "*PoolExecutor"
               /\ GetExecutor(c).exec.ref \notin 1..Len(poolExecs)
               /\ GetExecutor(c).heap[GetExecutor(c).exec.ref].Pool = pool
               /\ \A a \in 1..Len(poolExecs) : GetExecutor(c).heap[a] = poolExecs[a]
    /\ (ret.op = "GetExecutor" /\ ScopeOf(ret.ctx) = EmptyScope)
           => IsPoolBacked(ret.val)

\* GetExecutor has returned a second pool executor for an empty context
C3_Witness ==
    /\ ret.op = "GetExecutor"
    /\ ScopeOf(ret.ctx) = EmptyScope
    /\ ret.ctx # Background
    /\ ctxs[ret.ctx].key = "callerKey"
    /\ ret.val = PoolIface(2)
    /\ IsPoolBacked(ret.val)

\* C4: GetTxExecutor returns (nil, no error) where no transaction has been
\* injected, and the transaction with an error where one has; its error is
\* non-nil exactly when ExtractTx finds a transaction
C4_TxExecutorInverted ==
    \A c \in Contexts :
        /\ ScopeOf(c).tx = Absent
               => GetTxExecutor(c) = [exec |-> NilIface, err |-> NoError]
        /\ IsTx(ScopeOf(c).tx)
               => /\ GetTxExecutor(c).exec = ScopeOf(c).tx
                  /\ GetTxExecutor(c).err # NoError
        /\ (GetTxExecutor(c).err # NoError) <=> ExtractTx(c).ok

\* GetTxExecutor has returned an injected transaction with an error
C4_Witness ==
    /\ ret.op = "GetTxExecutor"
    /\ IsTx(ret.val)
    /\ ret.val = ScopeOf(ret.ctx).tx
    /\ ret.err = "no transaction found in context"

\* C5: GetBatchExecutor returns (nil, no error) where no batch has been
\* injected, and the batch with an error where one has
C5_BatchExecutorInverted ==
    ret.op = "GetBatchExecutor" =>
        /\ ScopeOf(ret.ctx).batch = Absent
               => (ret.val = NilIface /\ ret.err = NoError)
        /\ ScopeOf(ret.ctx).batch # Absent
               => (ret.val = ScopeOf(ret.ctx).batch /\ ret.err # NoError)

\* what the contexts' holders have injected is what the lookups find
SeesOwnScope(c) ==
    /\ ExtractTx(c) = [tx |-> IF IsTx(ScopeOf(c).tx) THEN ScopeOf(c).tx ELSE NilIface,
                       ok |-> IsTx(ScopeOf(c).tx)]
    /\ ExtractBatch(c) =
           [batch |-> IF ScopeOf(c).batch = Absent THEN 0 ELSE ScopeOf(c).batch.ref,
            ok |-> ScopeOf(c).batch # Absent]

\* what the calls answer on context c
Answers(c) == <<ExtractTx(c), ExtractBatch(c), GetExecutor(c)>>

\* C6: an injection changes the answer of no call on any context that
\* existed before it, its argument included; and every context shows what
\* was injected on the way to it, never what a sibling injected
C6_InjectLeavesContexts ==
    /\ [](\A c \in Contexts : SeesOwnScope(c))
    /\ [][ret'.op \in {"InjectTx", "InjectBatch"}
             => \A c \in Contexts : Answers(c)' = Answers(c)]_vars

\* GetExecutor on C1 = InjectTx(C0, tx1) has returned tx1 after
\* C2 = InjectBatch(C1, b1) was derived from it
C6_Witness ==
    /\ ret.op = "GetExecutor"
    /\ ret.ctx = 1
    /\ Len(ctxs) = 2
    /\ ctxs[1].key = "txKey"
    /\ ctxs[2] = WithValue(1, "batchKey", BatchIface(1))
    /\ IsTx(ret.val)
    /\ ret.val = ctxs[1].val

\* C7: a context made by injecting a transaction shows that transaction,
\* whatever its parent held, and the batch its parent shows; one made by
\* injecting a batch shows that batch and the transaction its parent shows
C7_LastWriterWins ==
    \A c \in 1..Len(ctxs) :
        /\ (ctxs[c].key = "txKey" /\ IsTx(ctxs[c].val))
               => /\ ExtractTx(c) = [tx |-> ctxs[c].val, ok |-> TRUE]
                  /\ ~ExtractBatch(c).ok => GetExecutor(c).exec = ctxs[c].val
                  /\ ExtractBatch(c) = ExtractBatch(ctxs[c].parent)
        /\ ctxs[c].key = "batchKey"
               => /\ ExtractBatch(c) = [batch |-> ctxs[c].val.ref, ok |-> TRUE]
                  /\ ExtractTx(c) = ExtractTx(ctxs[c].parent)

\* ExtractTx has returned tx2 on InjectTx(InjectTx(C, tx1), tx2)
C7_Witness ==
    /\ ret.op = "ExtractTx"
    /\ ret.ctx = 2
    /\ Len(ctxs) = 2
    /\ ctxs[2].parent = 1
    /\ ctxs[1].key = "txKey" /\ ctxs[2].key = "txKey"
    /\ IsTx(ctxs[1].val) /\ IsTx(ctxs[2].val)
    /\ ctxs[1].val # ctxs[2].val
    /\ ret.val = ctxs[2].val
    /\ ret.ok

\* C8: NewBatch returns a batch at an address no earlier batch has, with
\* nothing queued, and changes no other batch, no context and no answer of
\* ExtractBatch or GetExecutor; queueing on one batch changes no other
C8_NewBatchFresh ==
    /\ [][ret'.op = "NewBatch"
             => /\ ret'.val.typ = "*BatchExecutor"
                /\ ret'.val.ref \notin 1..Len(batches)
                /\ ret'.val.ref \in 1..Len(batches')
                /\ batches'[ret'.val.ref] = <<>>
                /\ \A b \in 1..Len(batches) : batches'[b] = batches[b]
                /\ ctxs' = ctxs
                /\ \A c \in Contexts :
                       /\ ExtractBatch(c)' = ExtractBatch(c)
                       /\ GetExecutor(c)' = GetExecutor(c)]_vars
    /\ [][ret'.op = "Queue"
             => \A b \in 1..Len(batches) :
                    b # ret'.val.ref => batches'[b] = batches[b]]_vars

\* NewBatch has returned an empty batch after a statement was queued on the
\* batch it returned before
C8_Witness ==
    /\ ret.op = "NewBatch"
    /\ ret.val = BatchIface(2)
    /\ Len(batches) = 2
    /\ batches[1] # <<>>
    /\ batches[2] = <<>>

\* the target GetExecutor resolves for a caller alone with scope s
ResolvedAlone(s, e) ==
    IF s.batch # Absent THEN e = s.batch
    ELSE IF IsTx(s.tx) THEN e = s.tx
    ELSE IsPoolBacked(e)

\* C9: whatever the other goroutines do meanwhile, GetExecutor returns to a
\* goroutine the target its own context resolves to alone; and no step
\* changes a context that exists
C9_NoInterference ==
    /\ [](\A p \in Procs :
             pc[p] = "returned" => ResolvedAlone(ScopeOf(cur[p]), loc[p]))
    /\ [][\A c \in 1..Len(ctxs) : ctxs'[c] = ctxs[c]]_vars

\* two goroutines that derived their contexts from a common parent have
\* each been returned their own target
C9_Witness ==
    /\ pc["g1"] = "returned" /\ pc["g2"] = "returned"
    /\ cur["g1"] # cur["g2"]
    /\ cur["g1"] # Background /\ cur["g2"] # Background
    /\ ctxs[cur["g1"]].parent = ctxs[cur["g2"]].parent
    /\ IsTx(loc["g1"])
    /\ loc["g2"] = BatchIface(1)

\* C10: a context made by injecting a nil transaction shows no transaction,
\* whatever its parent held: ExtractTx finds none, GetTxExecutor returns
\* (nil, no error), and without a batch GetExecutor returns a pool executor
C10_NilTxHides ==
    \A c \in 1..Len(ctxs) :
        (ctxs[c].key = "txKey" /\ ctxs[c].val = NilIface)
            => /\ ExtractTx(c) = [tx |-> NilIface, ok |-> FALSE]
               /\ GetTxExecutor(c) = [exec |-> NilIface, err |-> NoError]
               /\ ~ExtractBatch(c).ok
                      => GetExecutor(c).exec.typ = "*PoolExecutor"

\* GetExecutor has returned a pool executor on InjectTx(InjectTx(C, tx1), nil)
C10_Witness ==
    /\ ret.op = "GetExecutor"
    /\ ret.ctx = 2
    /\ Len(ctxs) = 2
    /\ ctxs[2] = WithValue(1, "txKey", NilIface)
    /\ ctxs[1].key = "txKey" /\ IsTx(ctxs[1].val)
    /\ IsPoolBacked(ret.val)

====
